---- MODULE Spec2Model ----
(***************************************************************************)
(* Model of the image-generation task engine of prompt_manger_desktop:     *)
(* the React hook useImageGen (src/unnamed/part_007, lines 1-412).         *)
(*                                                                         *)
(* The hook is a single-threaded, event-driven program.  Every action of   *)
(* this module is one macrotask of the JavaScript event loop: a user event *)
(* handler, a timer callback, the continuation of an awaited HTTP/IPC      *)
(* call together with all the microtasks it triggers, a render of the      *)
(* component, or the run of the effects that a render has left pending.    *)
(*                                                                         *)
(* The hook runs in a window of the Electron application: the preload      *)
(* script exposes window.electronAPI there (src/src/dist/main/preload.js,  *)
(* declared non-optional in src/src/renderer/types/electron.d.ts), so the  *)
(* tests of window.electronAPI at lines 40, 59, 66 and 97 succeed.  React  *)
(* behaves as version 18 does: the state updates of one macrotask are      *)
(* rendered together; a render begins with the effects that the render     *)
(* before has left pending; the render of a click runs after the handler   *)
(* and runs its own effects before the handler's macrotask ends.  The      *)
(* continuation of an await of a settled promise (lines 305, 353) is a     *)
(* microtask: it runs when the code that is running, a render included,    *)
(* has returned.                                                           *)
(***************************************************************************)
EXTENDS Integers, Sequences, FiniteSets, TLC

(***************************************************************************)
(* Bounds of the model.                                                    *)
(***************************************************************************)
MaxTasks == 2        \* tasks that exist over a run (stored + submitted)
MaxSubmits == 1      \* generateImage calls over a run
MaxQueue == 1        \* setTasks calls waiting for the next render
MaxTimers == 2       \* pending setTimeout callbacks
MaxRefresh == 1      \* manual refresh requests on the wire at a time
MaxClicks == 1       \* manual refreshes over a run
MaxNow == 600000     \* the clock stops advancing here (ms)
TickMs == 600000     \* one step of the clock (ms)
MaxBody == 201       \* characters of the longest body of a non-2xx answer

(***************************************************************************)
(* Program constants.                                                      *)
(***************************************************************************)
TIMEOUT_MS == 5 * 60 * 1000
\* '查询超时（5分钟）'
TIMEOUT_ERROR == "timeout(5min)"
\* '生成失败'
GENERATION_FAILED == "generation failed"
\* 'API 返回格式异常'
MALFORMED_ERROR == "malformed response"
\* 'API 请求失败 (status): body'
REQUEST_FAILED == "request failed"
\* '未知错误'
UNKNOWN_ERROR == "unknown error"
\* the message of the TypeError that reading task_id of null throws
NULL_TYPE_ERROR == "Cannot read properties of null (reading 'task_id')"
\* the message of the exception of a POST that could not be sent
CONNECTION_REFUSED == "net::ERR_CONNECTION_REFUSED"
\* a value that is undefined, null, absent or the empty string (all falsy)
Undef == ""

Statuses == {"pending", "processing", "completed", "failed"}
Terminal == {"completed", "failed"}

(***************************************************************************)
(* Helpers on sequences.                                                   *)
(***************************************************************************)
Range(s) == {s[k] : k \in DOMAIN s}

RECURSIVE MapSeq(_, _)
MapSeq(F(_), s) ==
  IF s = <<>> THEN <<>> ELSE <<F(Head(s))>> \o MapSeq(F, Tail(s))

IdsOf(ts) == {ts[k].id : k \in DOMAIN ts}

\* Array.prototype.find on id: the first task with that id, if there is one
HasTask(ts, id) == \E k \in DOMAIN ts : ts[k].id = id

FindTask(ts, id) ==
  ts[CHOOSE k \in DOMAIN ts :
       ts[k].id = id /\ \A j \in DOMAIN ts : ts[j].id = id => k <= j]

\* a merge in which an undefined value of u leaves the key of t as it is
SpreadDefined(t, u) ==
  [k \in DOMAIN t \cup DOMAIN u |->
     IF k \in DOMAIN u /\ (k \notin DOMAIN t \/ u[k] # Undef) THEN u[k] ELSE t[k]]

\* spread  { ...t, ...u }  : every key of u overwrites, also with undefined
Spread(t, u) ==
  [k \in DOMAIN t \cup DOMAIN u |-> IF k \in DOMAIN u THEN u[k] ELSE t[k]]

(***************************************************************************)
(* pollTaskStatus: normalisation of a status response body.                *)
(* A body is a record; an absent or falsy field is Undef, an absent list   *)
(* is <<>> with its "has" flag FALSE.                                      *)
(***************************************************************************)
EmptyBody ==
  [status |-> Undef, task_status |-> Undef, out_task_status |-> Undef,
   output_images |-> <<>>, data |-> <<>>,
   out_image_url |-> Undef, has_out_results |-> FALSE, out_results |-> <<>>,
   result_image_url |-> Undef, url |-> Undef,
   error_message |-> Undef, message |-> Undef, out_message |-> Undef]

\* String.prototype.toLowerCase on the strings the model uses
ToLowerCase(s) ==
  CASE s \in {"COMPLETED", "Completed"} -> "completed"
    [] s \in {"SUCCESS", "Success"} -> "success"
    [] s \in {"SUCCEEDED", "Succeeded"} -> "succeeded"
    [] s \in {"SUCCEED", "Succeed"} -> "succeed"
    [] s \in {"FAILED", "Failed"} -> "failed"
    [] s \in {"ERROR", "Error"} -> "error"
    [] s \in {"PENDING", "Pending"} -> "pending"
    [] s \in {"PROCESSING", "Processing"} -> "processing"
    [] s \in {"RUNNING", "Running"} -> "running"
    [] s \in {"QUEUED", "Queued"} -> "queued"
    [] OTHER -> s

\* a || b
Or(a, b) == IF a # Undef THEN a ELSE b

\* data.output.results[0]?.url || data.output.results[0]?.orig_url
FirstResultUrl(data) ==
  IF data.out_results = <<>> THEN Undef
  ELSE Or(data.out_results[1].url, data.out_results[1].orig_url)

Base64Url(b) == "data:image/png;base64," \o b

\* lines 232-242: the result of a terminal-success response (flat status)
SuccessResult(data) ==
  IF data.output_images # <<>>
    THEN [url |-> data.output_images[1], b64 |-> Undef]
  ELSE IF data.data # <<>>
    THEN [url |-> data.data[1].url,
          b64 |-> IF data.data[1].b64_json # Undef
                    THEN Base64Url(data.data[1].b64_json) ELSE Undef]
  ELSE IF data.out_image_url # Undef
    THEN [url |-> data.out_image_url, b64 |-> Undef]
  ELSE IF data.has_out_results /\ data.out_results # <<>>
    THEN [url |-> FirstResultUrl(data), b64 |-> Undef]
  ELSE IF data.result_image_url # Undef
    THEN [url |-> data.result_image_url, b64 |-> Undef]
  ELSE IF data.url # Undef
    THEN [url |-> data.url, b64 |-> Undef]
  ELSE [url |-> Undef, b64 |-> Undef]

\* lines 223-269: the update object pollTaskStatus builds from a 2xx body
\* (updatedAt, a time stamp that no code reads, is left out of the model)
Normalize(data) ==
  LET statusLower == ToLowerCase(Or(data.status, data.task_status))
      nestedStatus == ToLowerCase(data.out_task_status)
      mk(st, u, b, e) ==
        [status |-> st, resultImageUrl |-> u, resultImageBase64 |-> b,
         error |-> IF st = "completed" THEN Undef ELSE e]
  IN IF statusLower \in {"completed", "success", "succeeded", "succeed"}
       THEN mk("completed", SuccessResult(data).url, SuccessResult(data).b64, Undef)
     ELSE IF statusLower \in {"failed", "error"}
       THEN mk("failed", Undef, Undef,
               Or(data.error_message, Or(data.message, GENERATION_FAILED)))
     ELSE IF statusLower \in {"pending", "processing", "running"}
       THEN mk("processing", Undef, Undef, Undef)
     ELSE IF nestedStatus \in {"succeeded", "succeed"}
       THEN mk("completed",
               IF data.has_out_results THEN FirstResultUrl(data) ELSE Undef,
               Undef, Undef)
     ELSE IF nestedStatus = "failed"
       THEN mk("failed", Undef, Undef, Or(data.out_message, GENERATION_FAILED))
     ELSE mk("processing", Undef, Undef, Undef)

(***************************************************************************)
(* State.                                                                  *)
(***************************************************************************)
VARIABLES
  tasks,            \* useState tasks: the collection as of the last render
  tasksRef,         \* tasksRef.current
  apiConfig,        \* useState apiConfig: which fields are non-empty
  apiConfigRef,     \* apiConfigRef.current
  loading,          \* useState loading
  loadData,         \* loadData is suspended at its read of the store
  stored,           \* what storeGet(TASKS) / storeGet(API_CONFIG) return at startup
  persisted,        \* the list last written with storeSet(TASKS), if any
  storeWrites,      \* storeSet(TASKS) calls made by the updates of the last
                    \* render, or by the update that was run at its call
  queue,            \* state updates not yet rendered, oldest first
  eagerHead,        \* the updater of the first queued update has been run
                    \* already, when it was queued
  isPollingRef,     \* isPollingRef.current
  cycles,           \* pollOnce invocations suspended at an awaited status query:
                    \* from = tasksRef.current when the cycle began, snap =
                    \* currentProcessing, i = the task being queried, updates =
                    \* the Map, now = the cycle's Date.now(), reqs = the ids
                    \* queried so far, in order
  timers,           \* number of pending setTimeout(runLoop, 3000) callbacks
  pollingTimerRef,  \* pollingTimerRef.current: null, the handle of a pending
                    \* timer, or the handle of a timer that is gone
  skipped,          \* pollOnce has returned at line 279 during the cycle in flight
  refreshes,        \* manual refreshes suspended at their status query
  clicks,           \* number of manual refreshes so far
  submits,          \* generateImage calls suspended at their POST
  nextId,           \* number of the next uuid
  now,              \* Date.now()
  mounted,          \* the component that owns the hook is mounted
  input,            \* the arguments of a call examined on its own: the config and
                    \* the response body the call meets
  output            \* what that call gave back, or that it waits for the
                    \* answer to its request

vars == <<tasks, tasksRef, apiConfig, apiConfigRef, loading, loadData, stored,
          persisted, storeWrites, queue, eagerHead, isPollingRef, cycles,
          timers, pollingTimerRef, skipped, refreshes, clicks, submits, nextId,
          now, mounted, input, output>>

\* Timer handles are opaque and never reused: the program can only store the
\* last one and clear it.  pollingTimerRef.current is therefore one of
NullTimer == "null"          \* null
PendingTimer == "pending"    \* the handle of a timer that is still pending
GoneTimer == "gone"          \* the handle of a timer that fired or was cleared
\* and the pending timers that pollingTimerRef does not refer to are counted.

\* no call is examined on its own; the examined call has not returned yet
NoCall == [kind |-> "none"]

TaskId(n) == "t" \o ToString(n)

NewTask(id, taskId, status, createdAt) ==
  [id |-> id, taskId |-> taskId, status |-> status,
   createdAt |-> createdAt,
   resultImageUrl |-> Undef, resultImageBase64 |-> Undef, error |-> Undef]

HasProcessing(ts) == \E k \in DOMAIN ts : ts[k].status = "processing"

IsProcessing(t) == t.status = "processing"

EmptyMap == [x \in {} |-> Undef]

(***************************************************************************)
(* The updater functions given to setTasks.                                *)
(***************************************************************************)
\* Each yields the list the updater returns and the number of persistTasks
\* calls it makes.
\* lines 160-164 with the new task put last
ApplyPrependAtTail(ts, u) == [tasks |-> ts \o <<u.task>>, writes |-> 1]

\* lines 160-164 and 170-174
ApplyPrepend(ts, u) == [tasks |-> <<u.task>> \o ts, writes |-> 1]

\* lines 319-334 with persistTasks called for every changed task
ApplyBatchWritePerTask(ts, u) ==
  LET changed == {k \in DOMAIN ts : ts[k].id \in DOMAIN u.updates}
      merge(t) == IF t.id \in DOMAIN u.updates
                    THEN Spread(t, u.updates[t.id]) ELSE t
  IN [tasks |-> IF changed # {} THEN MapSeq(merge, ts) ELSE ts,
      writes |-> Cardinality(changed)]

\* lines 319-334 with the new list built from the updated tasks alone
ApplyBatchOfUpdated(ts, u) ==
  LET updated(t) == t.id \in DOMAIN u.updates
      merge(t) == Spread(t, u.updates[t.id])
  IN [tasks |-> MapSeq(merge, SelectSeq(ts, updated)), writes |-> 1]

\* lines 319-334
ApplyBatch(ts, u) ==
  LET hasChanges == \E k \in DOMAIN ts : ts[k].id \in DOMAIN u.updates
      merge(t) == IF t.id \in DOMAIN u.updates
                    THEN Spread(t, u.updates[t.id]) ELSE t
  IN [tasks |-> IF hasChanges THEN MapSeq(merge, ts) ELSE ts,
      writes |-> IF hasChanges THEN 1 ELSE 0]

\* lines 375-381
ApplyRefresh(ts, u) ==
  LET merge(t) == IF t.id = u.id THEN Spread(t, u.updates) ELSE t
  IN [tasks |-> MapSeq(merge, ts), writes |-> 1]

\* lines 387-391
ApplyDelete(ts, u) ==
  LET keep(t) == t.id # u.id
  IN [tasks |-> SelectSeq(ts, keep), writes |-> 1]

\* lines 395-399 with only the processing tasks kept
ApplyClearDropsPending(ts, u) ==
  LET keep(t) == t.status = "processing"
  IN [tasks |-> SelectSeq(ts, keep), writes |-> 1]

\* lines 395-399
ApplyClear(ts, u) ==
  LET keep(t) == t.status = "processing" \/ t.status = "pending"
  IN [tasks |-> SelectSeq(ts, keep), writes |-> 1]

\* line 46: if (storedTasks) setTasks(storedTasks)
ApplyLoad(ts, u) == [tasks |-> IF u.hasTasks THEN u.tasks ELSE ts, writes |-> 0]

\* what an update does to the collection; setApiConfig (line 59) leaves it
ApplyUpdate(ts, u) ==
  CASE u.kind = "prepend" -> ApplyPrepend(ts, u)
    [] u.kind = "batch" -> ApplyBatch(ts, u)
    [] u.kind = "refresh" -> ApplyRefresh(ts, u)
    [] u.kind = "delete" -> ApplyDelete(ts, u)
    [] u.kind = "clear" -> ApplyClear(ts, u)
    [] u.kind = "load" -> ApplyLoad(ts, u)
    [] u.kind = "config" -> [tasks |-> ts, writes |-> 0]

\* lines 329-333: the updater gives back the list it was given
ReturnsPrev(ts, u) == u.kind = "batch" /\ ApplyBatch(ts, u).writes = 0

\* the updaters of q run in order; every persistTasks call inside an updater
\* writes the list that updater returns
RECURSIVE ApplyAll(_, _, _, _)
ApplyAll(ts, q, written, n) ==
  IF q = <<>> THEN [tasks |-> ts, persisted |-> written, writes |-> n]
  ELSE LET r == ApplyUpdate(ts, Head(q))
       IN ApplyAll(r.tasks, Tail(q),
                   IF r.writes > 0 THEN [present |-> TRUE, tasks |-> r.tasks]
                                   ELSE written,
                   n + r.writes)

(***************************************************************************)
(* The hook as a function of its state                                     *)
(*   S = [state, tasksRef, config, configRef, loading, persisted, writes,  *)
(*        queue, eagerHead, isPolling, cycles, timers, ref, skipped,       *)
(*        eager, asked, micro].                                            *)
(* Each operator runs the code up to the point where it next suspends at   *)
(* an await or returns.  micro holds the continuations that wait in the    *)
(* microtask queue, oldest first: they run (RunMicro) when the macrotask's *)
(* synchronous code has returned.                                          *)
(***************************************************************************)
\* the element of a set of one element.  The({e : S \in {hook}}) is e with
\* S standing for the value of hook, which is evaluated once
The(s) == CHOOSE x \in s : TRUE

\* eager: React runs the updater of a setTasks call at the call, instead of
\* at the next render, when the component has no update pending; whether the
\* component counts as such while the queue of this hook is empty depends on
\* the other hooks of the component and on React's bookkeeping
Sched(eager) ==
  [state |-> tasks, tasksRef |-> tasksRef, config |-> apiConfig,
   configRef |-> apiConfigRef, loading |-> loading,
   persisted |-> persisted, writes |-> storeWrites,
   queue |-> queue, eagerHead |-> eagerHead,
   isPolling |-> isPollingRef, cycles |-> cycles, timers |-> timers,
   ref |-> pollingTimerRef, skipped |-> skipped, eager |-> eager,
   asked |-> FALSE, micro |-> <<>>]

\* setTasks(u) with an updater function.  With no update pending React may
\* run the updater at once (persistTasks writes the store now) and schedules
\* a render only if the updater gave a new list; else the update is queued
\* for the next render.  The update of an unmounted component is never
\* rendered.  asked records that the choice was open.
SetTasks(hook, u, isMounted) ==
  The({
        IF S.queue = <<>>
          THEN IF S.eager
            THEN LET r == ApplyUpdate(S.state, u)
                     S1 == IF r.writes > 0
                             THEN [S EXCEPT !.persisted = [present |-> TRUE, tasks |-> r.tasks],
                                            !.writes = r.writes, !.asked = TRUE]
                             ELSE [S EXCEPT !.asked = TRUE]
                 IN IF isMounted /\ ~ReturnsPrev(S.state, u)
                      THEN [S1 EXCEPT !.queue = <<u>>, !.eagerHead = TRUE]
                      ELSE S1
            ELSE IF isMounted THEN [S EXCEPT !.queue = <<u>>, !.asked = TRUE]
                              ELSE [S EXCEPT !.asked = TRUE]
          ELSE IF isMounted THEN [S EXCEPT !.queue = Append(@, u)] ELSE S
    : S \in {hook}})

\* the outcomes of a step, given a, its outcome with every updater left to
\* the render, and b, its outcome with the updater run at the call: b is
\* one only if the step has called setTasks with no update pending
Outcomes(a, b) == IF a.asked THEN {a, b} ELSE {a}

\* line 74 without the model name
ConfigCompleteNoModel(cfg) == cfg.apiUrl /\ cfg.apiKey

\* line 74: apiConfig.apiUrl && apiConfig.apiKey && apiConfig.modelName
ConfigComplete(cfg) == cfg.apiUrl /\ cfg.apiKey /\ cfg.modelName

\* config.apiUrl && config.apiKey  (line 182)
CanPoll(cfg) == cfg.apiUrl /\ cfg.apiKey

\* lines 296-300
TimeoutUpdate ==
  [status |-> "failed", error |-> TIMEOUT_ERROR]

\* line 295 with a test that no age passes
TimedOutNever(cycleNow, task) == cycleNow - task.createdAt > MaxNow

\* line 295
TimedOut(cycleNow, task) == cycleNow - task.createdAt > TIMEOUT_MS

\* lines 293-304: the for loop from task i of the snapshot on, up to the
\* next call of pollTaskStatus (result.i is its task) or to the end of the
\* snapshot (result.i = Len(snap) + 1).  A task past its timeout gets the
\* timeout update, a task without remote job id is passed over.
RECURSIVE Scan(_, _, _, _)
Scan(snap, i, updates, cycleNow) ==
  IF i > Len(snap) THEN [i |-> i, updates |-> updates]
  ELSE IF TimedOut(cycleNow, snap[i])
    THEN Scan(snap, i + 1, (snap[i].id :> TimeoutUpdate) @@ updates, cycleNow)
  ELSE IF snap[i].taskId # Undef
    THEN [i |-> i, updates |-> updates]
  ELSE Scan(snap, i + 1, updates, cycleNow)

\* line 282 filtering on "not completed"
NotCompleted(t) == t.status # "completed"

SnapshotNotCompleted(ref) == SelectSeq(ref, NotCompleted)

\* line 282
Snapshot(ref) == SelectSeq(ref, IsProcessing)

\* line 353: runLoop waits for a pollOnce that has returned
AwaitPollOnce == [kind |-> "runLoop"]

\* line 305: the cycle c waits for the null that pollTaskStatus has returned
\* at line 182 for task c.i
AwaitNull(c) == [kind |-> "pollOnce", cycle |-> c]

\* lines 356-358: the end of runLoop, after pollOnce has returned; the timer
\* pollingTimerRef referred to before stays pending, without a reference
RunLoopTail(hook) ==
  The({
        IF HasProcessing(S.tasksRef)
          THEN [S EXCEPT !.timers = @ + 1, !.ref = PendingTimer]
          ELSE S
    : S \in {hook}})

\* lines 317-339: the batched update and the finally block; pollOnce returns
\* to the runLoop that awaits it
EndCycle(hook, c, isMounted) ==
  The({
        LET S1 == IF DOMAIN c.updates # {}
                    THEN SetTasks(S, [kind |-> "batch", updates |-> c.updates],
                                  isMounted)
                    ELSE S
        IN [S1 EXCEPT !.isPolling = FALSE, !.skipped = FALSE,
                      !.micro = Append(@, AwaitPollOnce)]
    : S \in {hook}})

\* lines 293-339: the cycle c goes on with task i of its snapshot, until a
\* status query is on the wire (line 195), pollTaskStatus has returned null
\* without a request (line 182, awaited at line 305) or the cycle has ended
Loop(hook, c, i, isMounted) ==
  The({
        LET r == Scan(c.snap, i, c.updates, c.now)
            c1 == [c EXCEPT !.i = r.i, !.updates = r.updates]
        IN IF r.i > Len(c.snap)
             THEN EndCycle(S, c1, isMounted)
           ELSE IF CanPoll(S.configRef)
             THEN [S EXCEPT !.cycles =
                     Append(@, [c1 EXCEPT !.reqs = Append(@, c.snap[r.i].id)])]
           ELSE [S EXCEPT !.micro = Append(@, AwaitNull(c1))]
    : S \in {hook}})

\* the check of line 279 left out
AlreadyPollingNever(S) == FALSE

\* line 279
AlreadyPolling(S) == S.isPolling

\* lines 278-340: pollOnce, called by runLoop at time t, up to its first
\* await or its return
PollOnce(hook, t, isMounted) ==
  The({
        IF AlreadyPolling(S)
          THEN [S EXCEPT !.skipped = TRUE, !.micro = Append(@, AwaitPollOnce)]
        ELSE LET snap == Snapshot(S.tasksRef) IN
          IF snap = <<>>
            THEN [S EXCEPT !.micro = Append(@, AwaitPollOnce)]
          ELSE Loop([S EXCEPT !.isPolling = TRUE],
                    [from |-> S.tasksRef, snap |-> snap, i |-> 1,
                     updates |-> EmptyMap, now |-> t, reqs |-> <<>>],
                    1, isMounted)
    : S \in {hook}})

\* clearTimeout(pollingTimerRef.current)
ClearRefTimer(hook) ==
  The({
        IF S.ref = PendingTimer
          THEN [S EXCEPT !.timers = @ - 1, !.ref = GoneTimer]
          ELSE S
    : S \in {hook}})

\* lines 344-353: runLoop of an effect whose closure holds
\* hasProcessingTasks, up to its await of pollOnce
RunLoop(hasProcessingTasks, hook, t, isMounted) ==
  The({
        IF ~hasProcessingTasks
          THEN IF S.ref # NullTimer
                 THEN [ClearRefTimer(S) EXCEPT !.ref = NullTimer]
                 ELSE S
          ELSE PollOnce(S, t, isMounted)
    : S \in {hook}})

\* the microtasks that wait run in order, each to its next await or return:
\* a runLoop goes on after line 353, a cycle with its next task
RECURSIVE RunMicro(_, _)
RunMicro(hook, isMounted) ==
  The({
        IF S.micro = <<>> THEN S
        ELSE LET k == Head(S.micro)
                 S0 == [S EXCEPT !.micro = Tail(@)]
             IN RunMicro(IF k.kind = "runLoop"
                           THEN RunLoopTail(S0)
                           ELSE Loop(S0, k.cycle, k.cycle.i + 1, isMounted),
                         isMounted)
    : S \in {hook}})

\* lines 363-367: the cleanup of the polling effect
Cleanup(hook) ==
  The({
        IF S.ref # NullTimer THEN ClearRefTimer(S) ELSE S
    : S \in {hook}})

(***************************************************************************)
(* Inputs: what the store holds at startup and what the provider answers.  *)
(***************************************************************************)
NoConfig == [apiUrl |-> FALSE, apiKey |-> FALSE, modelName |-> FALSE]
FullConfig == [apiUrl |-> TRUE, apiKey |-> TRUE, modelName |-> TRUE]

\* a processing task written by an earlier session
StoredTask(n, createdAt) == NewTask(TaskId(n), "abc", "processing", createdAt)

\* the store of a first run, and the store an earlier session left
StoredChoices ==
  { [present |-> FALSE, tasks |-> <<>>, hasConfig |-> FALSE, config |-> NoConfig],
    [present |-> TRUE, tasks |-> <<StoredTask(1, 0)>>,
     hasConfig |-> TRUE, config |-> FullConfig] }

\* answers to GET /v1/tasks/{id}: a non-2xx answer or transport error, and
\* 2xx bodies
PollResponses ==
  { [ok |-> FALSE, data |-> EmptyBody],
    [ok |-> TRUE, data |-> [EmptyBody EXCEPT !.status = "RUNNING"]],
    [ok |-> TRUE, data |-> [EmptyBody EXCEPT !.status = "QUEUED"]],
    [ok |-> TRUE, data |-> [EmptyBody EXCEPT !.task_status = "SUCCEEDED",
                                             !.output_images = <<"img">>]],
    [ok |-> TRUE, data |-> [EmptyBody EXCEPT !.status = "failed",
                                             !.message = "nsfw"]] }

\* outcomes of POST /v1/images/generations.  rejected: the awaited call
\* (lines 98, 109, 122) throws an exception with that message; else it gives
\* an answer: null says that the body (or data.data[0]) is null, text is the
\* body as line 135 renders it
Answer ==
  [rejected |-> FALSE, message |-> Undef, ok |-> TRUE, null |-> FALSE,
   task_id |-> Undef, data |-> <<>>, text |-> Undef]

SubmitResponses ==
  { [Answer EXCEPT !.rejected = TRUE, !.ok = FALSE, !.message = CONNECTION_REFUSED],
    [Answer EXCEPT !.ok = FALSE, !.text = "invalid api key"],
    Answer,
    [Answer EXCEPT !.null = TRUE],
    [Answer EXCEPT !.task_id = "abc"],
    [Answer EXCEPT !.data = <<[null |-> FALSE, task_id |-> Undef, url |-> "img",
                               b64_json |-> Undef]>>] }

\* line 128: response.status
HttpStatus(resp) == IF resp.ok THEN "200" ELSE "500"

\* a string of n characters
RECURSIVE Repeat(_, _)
Repeat(c, n) == IF n = 0 THEN "" ELSE c \o Repeat(c, n - 1)

\* lines 134-136: the message of the error thrown for a non-2xx answer
RequestError(resp) ==
  REQUEST_FAILED \o " (" \o HttpStatus(resp) \o "): " \o resp.text

\* lines 180-275 with a failed query reported as a failure of the task
PollResultFailsOnError(resp) ==
  IF resp.ok THEN [null |-> FALSE, updates |-> Normalize(resp.data)]
  ELSE [null |-> FALSE,
        updates |-> [status |-> "failed", resultImageUrl |-> Undef,
                     resultImageBase64 |-> Undef, error |-> REQUEST_FAILED]]

\* lines 180-275: what pollTaskStatus returns for a response
PollResult(resp) ==
  IF resp.ok THEN [null |-> FALSE, updates |-> Normalize(resp.data)]
  ELSE [null |-> TRUE, updates |-> EmptyMap]

\* lines 134-176 without the fallback to the local id at line 145
SubmittedTaskNoFallback(task, resp) ==
  LET failed(msg) == [task EXCEPT !.status = "failed",
                                  !.error = Or(msg, UNKNOWN_ERROR)]
  IN IF resp.rejected THEN failed(resp.message)
     ELSE IF ~resp.ok THEN failed(RequestError(resp))
     ELSE IF resp.null THEN failed(NULL_TYPE_ERROR)
     ELSE IF resp.task_id # Undef
       THEN [task EXCEPT !.taskId = resp.task_id, !.status = "processing"]
     ELSE IF resp.data # <<>>
       THEN LET d == resp.data[1]
                t1 == [task EXCEPT !.taskId = d.task_id]
            IN IF d.null THEN failed(NULL_TYPE_ERROR)
               ELSE IF d.url # Undef
                 THEN [t1 EXCEPT !.resultImageUrl = d.url, !.status = "completed"]
               ELSE IF d.b64_json # Undef
                 THEN [t1 EXCEPT !.resultImageBase64 = Base64Url(d.b64_json),
                                 !.status = "completed"]
               ELSE [t1 EXCEPT !.status = "processing"]
     ELSE failed(MALFORMED_ERROR)

\* lines 88-176: the task generateImage ends with; the catch of lines
\* 166-176 takes every exception of the try
SubmittedTask(task, resp) ==
  LET failed(msg) == [task EXCEPT !.status = "failed",
                                  !.error = Or(msg, UNKNOWN_ERROR)]
  IN IF resp.rejected THEN failed(resp.message)
     ELSE IF ~resp.ok THEN failed(RequestError(resp))
     ELSE IF resp.null THEN failed(NULL_TYPE_ERROR)
     ELSE IF resp.task_id # Undef
       THEN [task EXCEPT !.taskId = resp.task_id, !.status = "processing"]
     ELSE IF resp.data # <<>>
       THEN LET d == resp.data[1]
                t1 == [task EXCEPT !.taskId = Or(d.task_id, task.id)]
            IN IF d.null THEN failed(NULL_TYPE_ERROR)
               ELSE IF d.url # Undef
                 THEN [t1 EXCEPT !.resultImageUrl = d.url, !.status = "completed"]
               ELSE IF d.b64_json # Undef
                 THEN [t1 EXCEPT !.resultImageBase64 = Base64Url(d.b64_json),
                                 !.status = "completed"]
               ELSE [t1 EXCEPT !.status = "processing"]
     ELSE failed(MALFORMED_ERROR)

(***************************************************************************)
(* Initial state: the component has mounted with tasks = [], the polling   *)
(* effect has run with hasProcessingTasks = false, loadData is waiting for *)
(* the store.                                                              *)
(***************************************************************************)
InitOn(store) ==
  /\ stored = store
  /\ tasks = <<>>
  /\ tasksRef = <<>>
  /\ apiConfig = NoConfig
  /\ apiConfigRef = NoConfig
  /\ loading = TRUE
  /\ loadData = TRUE
  /\ persisted = [present |-> stored.present, tasks |-> stored.tasks]
  /\ storeWrites = 0
  /\ queue = <<>>
  /\ eagerHead = FALSE
  /\ isPollingRef = FALSE
  /\ cycles = <<>>
  /\ timers = 0
  /\ pollingTimerRef = NullTimer
  /\ skipped = FALSE
  /\ refreshes = {}
  /\ clicks = 0
  /\ submits = {}
  /\ nextId = Len(stored.tasks) + 1
  /\ now = 0
  /\ mounted = TRUE
  /\ input = NoCall
  /\ output = NoCall

Init == \E store \in StoredChoices : InitOn(store)

\* the variables of the hook take the values of S, within the bounds
SetSched(S) ==
  \E R \in {S} :
    /\ Len(R.queue) <= MaxQueue
    /\ R.timers <= MaxTimers
    /\ tasks' = R.state
    /\ tasksRef' = R.tasksRef
    /\ apiConfig' = R.config
    /\ apiConfigRef' = R.configRef
    /\ loading' = R.loading
    /\ persisted' = R.persisted
    /\ storeWrites' = R.writes
    /\ queue' = R.queue
    /\ eagerHead' = R.eagerHead
    /\ isPollingRef' = R.isPolling
    /\ cycles' = R.cycles
    /\ timers' = R.timers
    /\ pollingTimerRef' = R.ref
    /\ skipped' = R.skipped

\* the effects that the last render has left to run: tasksRef and
\* apiConfigRef are synced (lines 27, 28) and, when hasProcessingTasks has
\* changed since the render before (lines 31-34, 368), the polling effect is
\* cleaned up and run again, up to the await of its runLoop.  tasksRef holds
\* the list of the render before.
FlushEffects(hook, t) ==
  The({
        LET was == HasProcessing(S.tasksRef)
            is == HasProcessing(S.state)
            S0 == [S EXCEPT !.tasksRef = S.state, !.configRef = S.config]
        IN IF is # was
             THEN RunLoop(is, Cleanup(S0), t, TRUE)
             ELSE S0
    : S \in {hook}})

\* effects of the last render are waiting to run
EffectsPending == tasks # tasksRef \/ apiConfig # apiConfigRef

\* lines 45 and 59: the config after the setApiConfig calls of q
ConfigAfter(cfg, q) ==
  LET sets == {k \in DOMAIN q :
                 q[k].kind = "config" \/ (q[k].kind = "load" /\ q[k].hasConfig)}
  IN IF sets = {} THEN cfg
     ELSE q[CHOOSE k \in sets : \A j \in sets : j <= k].config

\* line 51: loading after the setLoading calls of q
LoadingAfter(l, q) ==
  IF \E k \in DOMAIN q : q[k].kind = "load" THEN FALSE ELSE l

\* a render applies the queued updates in order; an updater that was run
\* when it was queued is not run again, its result is taken.  storeWrites
\* counts the persistTasks calls of the updates of the render, whenever
\* their updaters ran.
ApplyQueue(hook) ==
  The({
        LET q == S.queue
            first == IF S.eagerHead THEN ApplyUpdate(S.state, Head(q)).tasks ELSE S.state
            r == ApplyAll(first, IF S.eagerHead THEN Tail(q) ELSE q, S.persisted,
                          IF S.eagerHead THEN S.writes ELSE 0)
        IN [S EXCEPT !.state = r.tasks, !.persisted = r.persisted, !.writes = r.writes,
                     !.config = ConfigAfter(S.config, q),
                     !.loading = LoadingAfter(S.loading, q),
                     !.queue = <<>>, !.eagerHead = FALSE]
    : S \in {hook}})

\* the update u of a click handler: the handler queues u; React then runs
\* the effects that the render before has left pending, renders u with the
\* queued updates and runs the effects of that render; the microtasks
\* follow when React has returned
Commit(u) ==
  LET step(eager) ==
        RunMicro(FlushEffects(ApplyQueue(
                   FlushEffects([Sched(eager) EXCEPT !.queue = Append(@, u)], now)),
                 now), TRUE)
  IN \E a \in {step(FALSE)} : \E R \in Outcomes(a, step(TRUE)) : SetSched(R)

(***************************************************************************)
(* Actions.                                                                *)
(***************************************************************************)
\* lines 37-55: the read of the store returns, with the stored values or
\* with a rejection (lines 48-50), and loadData runs to its end: the three
\* state updates are rendered together
LoadDone ==
  /\ loadData
  /\ loadData' = FALSE
  /\ \E read \in BOOLEAN :
       SetSched(IF mounted
                  THEN [Sched(FALSE) EXCEPT !.queue = Append(@,
                          [kind |-> "load",
                           hasConfig |-> read /\ stored.hasConfig,
                           config |-> stored.config,
                           hasTasks |-> read /\ stored.present,
                           tasks |-> IF read THEN stored.tasks ELSE <<>>])]
                  ELSE Sched(FALSE))
  /\ UNCHANGED <<input, output, clicks, stored, refreshes, submits, nextId, now,
                 mounted>>

\* a render that React has scheduled for queued updates; the effects of the
\* render before run first if they are still pending, the microtasks they
\* leave run after the render
Render ==
  /\ mounted
  /\ queue # <<>>
  /\ LET step(eager) ==
           RunMicro(ApplyQueue(FlushEffects(Sched(eager), now)), TRUE)
     IN \E a \in {step(FALSE)} : \E R \in Outcomes(a, step(TRUE)) : SetSched(R)
  /\ UNCHANGED <<input, output, clicks, loadData, stored, refreshes, submits,
                 nextId, now, mounted>>

\* React runs the effects of the last render
Effects ==
  /\ mounted
  /\ EffectsPending
  /\ LET step(eager) == RunMicro(FlushEffects(Sched(eager), now), TRUE)
     IN \E a \in {step(FALSE)} : \E R \in Outcomes(a, step(TRUE)) : SetSched(R)
  /\ UNCHANGED <<input, output, clicks, loadData, stored, refreshes, submits,
                 nextId, now, mounted>>

\* what the call examined on its own gives back to its caller
Returns(v) == output' = IF input.kind = "none" THEN output ELSE v

\* lines 74-76: generateImage with an incomplete config throws
GenerateImageThrows ==
  /\ mounted
  /\ ~ConfigComplete(apiConfig)
  /\ Returns([kind |-> "thrown"])
  /\ UNCHANGED <<input, tasks, tasksRef, apiConfig, apiConfigRef, loading,
                 loadData, stored, persisted, storeWrites, queue, eagerHead,
                 isPollingRef, cycles, timers, pollingTimerRef, skipped,
                 refreshes, clicks, submits, nextId, now, mounted>>

\* lines 73-132: generateImage up to the awaited POST
GenerateImage ==
  /\ mounted
  /\ ConfigComplete(apiConfig)
  /\ nextId <= MaxTasks
  /\ nextId <= Len(stored.tasks) + MaxSubmits
  /\ submits = {}
  /\ submits' = {NewTask(TaskId(nextId), Undef, "pending", now)}
  /\ nextId' = nextId + 1
  /\ UNCHANGED <<input, output, clicks, tasks, tasksRef, apiConfig, apiConfigRef,
                 loading, loadData, stored, persisted, storeWrites, queue,
                 eagerHead, isPollingRef, cycles, timers, pollingTimerRef,
                 skipped, refreshes, now, mounted>>

\* lines 134-176: the POST returns or is rejected
SubmitReturn(task, resp) ==
  /\ task \in submits
  /\ submits' = submits \ {task}
  /\ LET step(eager) ==
           SetTasks(Sched(eager), [kind |-> "prepend",
                                   task |-> SubmittedTask(task, resp)], mounted)
     IN \E a \in {step(FALSE)} : \E R \in Outcomes(a, step(TRUE)) : SetSched(R)
  /\ Returns([kind |-> "task", task |-> SubmittedTask(task, resp)])
  /\ UNCHANGED <<input, clicks, loadData, stored, refreshes, nextId, now, mounted>>

\* part_003 lines 40-61: the task shows a refresh button
CanRefresh(t) ==
  \/ t.status = "processing"
  \/ t.status \in {"failed", "pending"} /\ t.taskId # Undef

\* lines 371-373: refreshTask(task) up to the awaited status query
RefreshTask(k) ==
  /\ mounted
  /\ k \in DOMAIN tasks
  /\ CanRefresh(tasks[k])
  /\ tasks[k].taskId # Undef
  /\ CanPoll(apiConfigRef)
  /\ Cardinality(refreshes) < MaxRefresh
  /\ clicks < MaxClicks
  /\ clicks' = clicks + 1
  /\ [id |-> tasks[k].id, taskId |-> tasks[k].taskId] \notin refreshes
  /\ refreshes' = refreshes \cup {[id |-> tasks[k].id, taskId |-> tasks[k].taskId]}
  /\ UNCHANGED <<input, output, tasks, tasksRef, apiConfig, apiConfigRef, loading,
                 loadData, stored, persisted, storeWrites, queue, eagerHead,
                 isPollingRef, cycles, timers, pollingTimerRef, skipped,
                 submits, nextId, now, mounted>>

\* lines 373-383: the status query of a manual refresh returns
RefreshReturn(r, resp) ==
  /\ r \in refreshes
  /\ refreshes' = refreshes \ {r}
  /\ LET res == PollResult(resp)
         step(eager) ==
           IF res.null THEN Sched(eager)
           ELSE SetTasks(Sched(eager), [kind |-> "refresh", id |-> r.id,
                                        updates |-> res.updates], mounted)
     IN \E a \in {step(FALSE)} : \E R \in Outcomes(a, step(TRUE)) : SetSched(R)
  /\ UNCHANGED <<input, output, clicks, loadData, stored, submits, nextId, now,
                 mounted>>

\* lines 308-313: the cycle records the result of the query of task t
Record(updates, t, res, ref) ==
  IF /\ ~res.null
     /\ HasTask(ref, t.id)
     /\ (FindTask(ref, t.id).status # res.updates.status
           \/ res.updates.status = "completed")
    THEN (t.id :> res.updates) @@ updates
    ELSE updates

\* lines 305-358: the status query of cycle n returns; the loop goes on to
\* the next query or to the end of the cycle and of its runLoop
PollReturn(n, resp) ==
  /\ n \in DOMAIN cycles
  /\ \E c \in {cycles[n]} :
     \E upd \in {Record(c.updates, c.snap[c.i], PollResult(resp), tasksRef)} :
     \E c1 \in {[c EXCEPT !.updates = upd]} :
       LET rest == SubSeq(cycles, 1, n - 1) \o SubSeq(cycles, n + 1, Len(cycles))
           step(eager) ==
             RunMicro(Loop([Sched(eager) EXCEPT !.cycles = rest], c1, c.i + 1,
                           mounted), mounted)
       IN \E a \in {step(FALSE)} : \E R \in Outcomes(a, step(TRUE)) : SetSched(R)
  /\ UNCHANGED <<input, output, clicks, loadData, stored, refreshes, submits,
                 nextId, now, mounted>>

\* a pending setTimeout(runLoop, 3000) fires: the one pollingTimerRef refers
\* to (referenced) or another one.  Every timer was armed by a runLoop whose
\* closure holds hasProcessingTasks = true (line 357).
TimerFire(referenced) ==
  /\ IF referenced THEN pollingTimerRef = PendingTimer
                    ELSE timers > (IF pollingTimerRef = PendingTimer THEN 1 ELSE 0)
  /\ LET step(eager) ==
           RunMicro(RunLoop(TRUE, [Sched(eager) EXCEPT
                                     !.timers = @ - 1,
                                     !.ref = IF referenced THEN GoneTimer ELSE @],
                            now, mounted), mounted)
     IN \E a \in {step(FALSE)} : \E R \in Outcomes(a, step(TRUE)) : SetSched(R)
  /\ UNCHANGED <<input, output, clicks, loadData, stored, refreshes, submits,
                 nextId, now, mounted>>

\* lines 386-392: deleteTask from a click
DeleteTask(id) ==
  /\ mounted
  /\ id \in IdsOf(tasks)
  /\ Commit([kind |-> "delete", id |-> id])
  /\ UNCHANGED <<input, output, clicks, loadData, stored, refreshes, submits,
                 nextId, now, mounted>>

\* lines 394-400: clearFinishedTasks from a click on the button that the
\* task list shows whenever it is not empty (part_003 lines 149, 165-170)
ClearFinishedTasks ==
  /\ mounted
  /\ tasks # <<>>
  /\ Commit([kind |-> "clear"])
  /\ Returns([kind |-> "void"])
  /\ UNCHANGED <<input, clicks, loadData, stored, refreshes, submits, nextId, now,
                 mounted>>

\* lines 58-63: saveApiConfig(config) from a click in the settings panel,
\* which the application shows as soon as the prompt data is loaded
\* (part_001 lines 270, 433); the store's config key is not read again
\* after startup
SaveApiConfig(cfg) ==
  /\ mounted
  /\ Commit([kind |-> "config", config |-> cfg])
  /\ UNCHANGED <<input, output, clicks, loadData, stored, refreshes, submits,
                 nextId, now, mounted>>

\* the clock advances
Tick ==
  /\ now + TickMs <= MaxNow
  /\ now' = now + TickMs
  /\ UNCHANGED <<input, output, clicks, tasks, tasksRef, apiConfig, apiConfigRef,
                 loading, loadData, stored, persisted, storeWrites, queue,
                 eagerHead, isPollingRef, cycles, timers, pollingTimerRef,
                 skipped, refreshes, submits, nextId, mounted>>

\* lines 363-367: the owning component unmounts; React runs the effects
\* that the last render has left pending, then the cleanup of the polling
\* effect, and drops the component's state and pending updates
Unmount ==
  /\ mounted
  /\ mounted' = FALSE
  /\ LET step(eager) ==
           RunMicro([Cleanup(FlushEffects(Sched(eager), now))
                       EXCEPT !.queue = <<>>, !.eagerHead = FALSE], FALSE)
     IN \E a \in {step(FALSE)} : \E R \in Outcomes(a, step(TRUE)) : SetSched(R)
  /\ UNCHANGED <<input, output, clicks, loadData, stored, refreshes, submits,
                 nextId, now>>

\* the configs the user saves: a complete one and one with every field empty
SavedConfigs == {FullConfig, NoConfig}

Next ==
  \/ LoadDone
  \/ Render
  \/ Effects
  \/ GenerateImageThrows
  \/ GenerateImage
  \/ \E task \in submits, resp \in SubmitResponses : SubmitReturn(task, resp)
  \/ \E k \in 1..MaxTasks : RefreshTask(k)
  \/ \E r \in refreshes, resp \in PollResponses : RefreshReturn(r, resp)
  \/ \E n \in 1..MaxTasks, resp \in PollResponses : PollReturn(n, resp)
  \/ \E referenced \in BOOLEAN : TimerFire(referenced)
  \/ \E n \in 1..MaxTasks : DeleteTask(TaskId(n))
  \/ ClearFinishedTasks
  \/ \E cfg \in SavedConfigs : SaveApiConfig(cfg)
  \/ Tick
  \/ Unmount

Spec == Init /\ [][Next]_vars

(***************************************************************************)
(* The background loop of a session that starts on a store holding two     *)
(* processing tasks: the load, the timer chain, the cycles, their renders  *)
(* and effects, the clock, and the deletion of a task by the user.         *)
(***************************************************************************)
LoopStored ==
  [present |-> TRUE, tasks |-> <<StoredTask(1, 0), StoredTask(2, 0)>>,
   hasConfig |-> TRUE, config |-> FullConfig]

InitLoop == InitOn(LoopStored)

NextLoop ==
  \/ LoadDone
  \/ Render
  \/ Effects
  \/ \E n \in 1..MaxTasks, resp \in PollResponses : PollReturn(n, resp)
  \/ \E referenced \in BOOLEAN : TimerFire(referenced)
  \/ \E n \in 1..MaxTasks : DeleteTask(TaskId(n))
  \/ Tick

(***************************************************************************)
(* The background loop under the scheduling its environment provides: a   *)
(* pending timer fires, every status query and the store read return,      *)
(* React renders queued updates, the clock advances.  The user's clicks    *)
(* are not obliged to happen.                                              *)
(***************************************************************************)
Fairness ==
  /\ WF_vars(LoadDone)
  /\ WF_vars(Render)
  /\ WF_vars(Effects)
  /\ WF_vars(\E n \in 1..MaxTasks, resp \in PollResponses : PollReturn(n, resp))
  /\ WF_vars(\E referenced \in BOOLEAN : TimerFire(referenced))
  /\ WF_vars(Tick)

SpecFair == InitLoop /\ [][NextLoop]_vars /\ Fairness

(***************************************************************************)
(* generateImage on its own: one call, under every config and with every   *)
(* answer of the provider, in a session whose collection holds one         *)
(* finished task.                                                          *)
(***************************************************************************)
Configs == [apiUrl : BOOLEAN, apiKey : BOOLEAN, modelName : BOOLEAN]

\* data.data[0] of an answer to the POST
NullItem == [null |-> TRUE, task_id |-> Undef, url |-> Undef, b64_json |-> Undef]

SubmitItems ==
  [null : {FALSE}, task_id : {Undef, "rid"}, url : {Undef, "img"},
   b64_json : {Undef, "b64"}]

\* bodies of a non-2xx answer as line 135 renders them
ErrorTexts == {Undef, "invalid api key", Repeat("x", MaxBody)}

\* outcomes of the POST: the answers with ok, data.task_id, data.data, a
\* field the code does not read, and the body as text; the answers whose
\* body or first item is null; the exceptions, with and without a message
SubmitBodies ==
  [rejected : {FALSE}, message : {Undef}, ok : BOOLEAN, null : {FALSE},
   task_id : {Undef, "job"},
   data : {<<>>} \cup {<<d>> : d \in SubmitItems},
   request_id : {Undef, "req"}, text : ErrorTexts]
    \cup [rejected : {FALSE}, message : {Undef}, ok : {TRUE}, null : {TRUE},
          task_id : {Undef}, data : {<<>>}, request_id : {Undef, "req"},
          text : {Undef}]
    \cup [rejected : {FALSE}, message : {Undef}, ok : {TRUE}, null : {FALSE},
          task_id : {Undef}, data : {<<NullItem>>}, request_id : {Undef, "req"},
          text : {Undef}]
    \cup [rejected : {TRUE}, message : {Undef, CONNECTION_REFUSED}, ok : {FALSE},
          null : {FALSE}, task_id : {Undef}, data : {<<>>},
          request_id : {Undef}, text : {Undef}]

FinishedTask ==
  [NewTask(TaskId(1), "old", "completed", 0) EXCEPT !.resultImageUrl = "img"]

InitSubmit ==
  /\ input \in [kind : {"submit"}, config : Configs, resp : SubmitBodies]
  /\ output = NoCall
  /\ stored = [present |-> TRUE, tasks |-> <<FinishedTask>>, hasConfig |-> TRUE,
              config |-> input.config]
  /\ tasks = <<FinishedTask>>
  /\ tasksRef = <<FinishedTask>>
  /\ apiConfig = input.config
  /\ apiConfigRef = input.config
  /\ loading = FALSE
  /\ loadData = FALSE
  /\ persisted = [present |-> TRUE, tasks |-> <<FinishedTask>>]
  /\ storeWrites = 0
  /\ queue = <<>>
  /\ eagerHead = FALSE
  /\ isPollingRef = FALSE
  /\ cycles = <<>>
  /\ timers = 0
  /\ pollingTimerRef = NullTimer
  /\ skipped = FALSE
  /\ refreshes = {}
  /\ clicks = 0
  /\ submits = {}
  /\ nextId = 2
  /\ now = 0
  /\ mounted = TRUE

NextSubmit ==
  \/ GenerateImageThrows
  \/ output.kind = "none" /\ GenerateImage
  \/ \E task \in submits : SubmitReturn(task, input.resp)
  \/ Render
  \/ Effects

SpecSubmit == InitSubmit /\ [][NextSubmit]_vars

(***************************************************************************)
(* pollTaskStatus on its own: one status query whose response body is      *)
(* drawn from the shapes the providers answer with.  StatusBodies varies   *)
(* the three status fields over the vocabulary in several letter cases, an *)
(* unrecognized string and absent; ShapeBodies varies the result shapes    *)
(* and the message fields under the ways a status can be carried.          *)
(***************************************************************************)
StatusValues ==
  {Undef, "completed", "COMPLETED", "Success", "SUCCEEDED", "succeed",
   "FAILED", "Failed", "error", "Pending", "PROCESSING", "running", "queued"}

StatusBodies ==
  {[EmptyBody EXCEPT !.status = s, !.task_status = t, !.out_task_status = o] :
     s \in StatusValues, t \in StatusValues, o \in StatusValues}

DataItems == [url : {Undef, "d"}, b64_json : {Undef, "b64"}]

ResultItems == {[url |-> Undef, orig_url |-> Undef],
                [url |-> "r", orig_url |-> Undef],
                [url |-> Undef, orig_url |-> "orig"]}

StatusCarriers ==
  {[status |-> "succeeded", task_status |-> Undef, out_task_status |-> Undef],
   [status |-> Undef, task_status |-> "SUCCEEDED", out_task_status |-> Undef],
   [status |-> Undef, task_status |-> Undef, out_task_status |-> "SUCCEEDED"],
   [status |-> "failed", task_status |-> Undef, out_task_status |-> Undef],
   [status |-> Undef, task_status |-> "FAILED", out_task_status |-> Undef],
   [status |-> Undef, task_status |-> "Failed", out_task_status |-> Undef],
   [status |-> Undef, task_status |-> Undef, out_task_status |-> "FAILED"]}

ShapeBodies ==
  {[status |-> c.status, task_status |-> c.task_status,
    out_task_status |-> c.out_task_status,
    output_images |-> oi, data |-> d, out_image_url |-> ou,
    has_out_results |-> r.has, out_results |-> r.items,
    result_image_url |-> ru, url |-> u,
    error_message |-> Undef, message |-> m, out_message |-> om] :
     c \in StatusCarriers,
     oi \in {<<>>, <<"oi">>},
     d \in {<<>>} \cup {<<x>> : x \in DataItems},
     ou \in {Undef, "ou"},
     r \in {[has |-> FALSE, items |-> <<>>], [has |-> TRUE, items |-> <<>>]}
            \cup {[has |-> TRUE, items |-> <<x>>] : x \in ResultItems},
     ru \in {Undef, "ru"},
     u \in {Undef, "u"},
     m \in {Undef, "msg"},
     om \in {Undef, "nsfw"}}

StatusResponses ==
  {[ok |-> FALSE, data |-> EmptyBody]}
    \cup {[ok |-> TRUE, data |-> b] : b \in StatusBodies \cup ShapeBodies}

ProcessingTask == StoredTask(1, 0)

InitNormalize ==
  /\ input \in [kind : {"status"}, resp : StatusResponses]
  /\ output = NoCall
  /\ stored = [present |-> TRUE, tasks |-> <<ProcessingTask>>, hasConfig |-> TRUE,
              config |-> FullConfig]
  /\ tasks = <<ProcessingTask>>
  /\ tasksRef = <<ProcessingTask>>
  /\ apiConfig = FullConfig
  /\ apiConfigRef = FullConfig
  /\ loading = FALSE
  /\ loadData = FALSE
  /\ persisted = [present |-> TRUE, tasks |-> <<ProcessingTask>>]
  /\ storeWrites = 0
  /\ queue = <<>>
  /\ eagerHead = FALSE
  /\ isPollingRef = FALSE
  /\ cycles = <<>>
  /\ timers = 1
  /\ pollingTimerRef = PendingTimer
  /\ skipped = FALSE
  /\ refreshes = {}
  /\ clicks = 0
  /\ submits = {}
  /\ nextId = 2
  /\ now = 0
  /\ mounted = TRUE

\* lines 180-195: pollTaskStatus is called; it returns null without a
\* request (line 182) or sends its request and waits for the answer
PollTaskStatus ==
  /\ input.kind = "status"
  /\ output.kind = "none"
  /\ output' = IF CanPoll(apiConfigRef)
                 THEN [kind |-> "awaited"]
                 ELSE [kind |-> "result",
                       result |-> [null |-> TRUE, updates |-> EmptyMap]]
  /\ UNCHANGED <<input, tasks, tasksRef, apiConfig, apiConfigRef, loading,
                 loadData, stored, persisted, storeWrites, queue, eagerHead,
                 isPollingRef, cycles, timers, pollingTimerRef, skipped,
                 refreshes, clicks, submits, nextId, now, mounted>>

\* lines 195-274: the answer arrives and pollTaskStatus answers its caller
PollTaskStatusReturn ==
  /\ input.kind = "status"
  /\ output.kind = "awaited"
  /\ output' = [kind |-> "result", result |-> PollResult(input.resp)]
  /\ UNCHANGED <<input, tasks, tasksRef, apiConfig, apiConfigRef, loading,
                 loadData, stored, persisted, storeWrites, queue, eagerHead,
                 isPollingRef, cycles, timers, pollingTimerRef, skipped,
                 refreshes, clicks, submits, nextId, now, mounted>>

NextNormalize == PollTaskStatus \/ PollTaskStatusReturn

SpecNormalize == InitNormalize /\ [][NextNormalize]_vars

(***************************************************************************)
(* refreshTask on its own: one click on the refresh button of a processing *)
(* task, the status query answered by any of the responses above, and the  *)
(* render of its update.                                                   *)
(***************************************************************************)
NextRefresh ==
  \/ \E k \in DOMAIN tasks : RefreshTask(k)
  \/ \E r \in refreshes : RefreshReturn(r, input.resp)
  \/ Render
  \/ Effects

SpecRefresh == InitNormalize /\ [][NextRefresh]_vars

(***************************************************************************)
(* clearFinishedTasks on its own: one click on the clear button with the   *)
(* collection drawn from the lists of up to MaxTasks + 1 tasks of any      *)
(* status, no operation in flight.                                         *)
(***************************************************************************)
ClearStatuses == [1..(MaxTasks + 1) -> Statuses]

\* the k-th task of a list whose statuses are st; a finished task carries
\* what finishing left in it
ClearTask(st, k) ==
  [NewTask(TaskId(k), IF st[k] = "pending" THEN Undef ELSE "abc", st[k], 0)
     EXCEPT !.resultImageUrl = IF st[k] = "completed" THEN "img" ELSE Undef,
            !.error = IF st[k] = "failed" THEN GENERATION_FAILED ELSE Undef]

ClearLists ==
  {[k \in 1..n |-> ClearTask(st, k)] : n \in 1..(MaxTasks + 1), st \in ClearStatuses}

InitClear ==
  /\ input \in [kind : {"clear"}, tasks : ClearLists]
  /\ output = NoCall
  /\ stored = [present |-> TRUE, tasks |-> input.tasks, hasConfig |-> TRUE,
              config |-> FullConfig]
  /\ tasks = input.tasks
  /\ tasksRef = input.tasks
  /\ apiConfig = FullConfig
  /\ apiConfigRef = FullConfig
  /\ loading = FALSE
  /\ loadData = FALSE
  /\ persisted = [present |-> TRUE, tasks |-> input.tasks]
  /\ storeWrites = 0
  /\ queue = <<>>
  /\ eagerHead = FALSE
  /\ isPollingRef = FALSE
  /\ cycles = <<>>
  /\ timers = IF HasProcessing(input.tasks) THEN 1 ELSE 0
  /\ pollingTimerRef = IF HasProcessing(input.tasks) THEN PendingTimer ELSE NullTimer
  /\ skipped = FALSE
  /\ refreshes = {}
  /\ clicks = 0
  /\ submits = {}
  /\ nextId = MaxTasks + 2
  /\ now = 0
  /\ mounted = TRUE

NextClear == ClearFinishedTasks

SpecClear == InitClear /\ [][NextClear]_vars

(***************************************************************************)
(* Vocabulary of the properties.                                           *)
(***************************************************************************)
AllIds == {TaskId(n) : n \in 1..(MaxTasks + 1)}

StatusOf(ts, id) == FindTask(ts, id).status

Last(s) == s[Len(s)]

\* the step starts a cycle c, or moves c on to its next status query
Started(c) ==
  /\ c \in Range(cycles')
  /\ Len(c.reqs) = 1
  /\ (c \notin Range(cycles) \/ Len(cycles') > Len(cycles))

Advanced(c) ==
  /\ c \in Range(cycles')
  /\ Len(c.reqs) > 1
  /\ c \notin Range(cycles)

\* the step puts a status query for task id on the wire
AutoIssued(id) ==
  \E c \in Range(cycles') : (Started(c) \/ Advanced(c)) /\ Last(c.reqs) = id

ManualIssued(id) == \E r \in refreshes' \ refreshes : r.id = id

\* the step ends a cycle; the step calls setTasks with update u
EndsCycle == Len(cycles') < Len(cycles)

Enqueues(u) == queue' # queue /\ queue' # <<>> /\ u = Last(queue')

Eligible(t) == t.status = "processing" /\ t.taskId # Undef

Quiescent ==
  mounted /\ ~loadData /\ cycles = <<>> /\ queue = <<>> /\ ~EffectsPending

(***************************************************************************)
(* C1: at most one automatic poll cycle executes at any time; pollOnce     *)
(* invoked while a cycle is in flight returns at once, issues no request   *)
(* and changes no task, so a cycle queries each of its tasks at most once. *)
(***************************************************************************)
C1_OneCycleAtATime ==
  /\ [](/\ Len(cycles) <= 1
        /\ (isPollingRef <=> cycles # <<>>)
        /\ \A c \in Range(cycles) :
             /\ Len(c.reqs) <= Len(c.snap)
             /\ \A j, k \in DOMAIN c.reqs : j # k => c.reqs[j] # c.reqs[k])
  /\ [][(isPollingRef /\ \E r \in BOOLEAN : TimerFire(r))
          => UNCHANGED <<cycles, isPollingRef, queue, tasks, persisted>>]_vars
  /\ [][isPollingRef => \A c \in Range(cycles') : ~Started(c)]_vars

\* pollOnce has been invoked, and has returned at line 279, during the cycle
\* that is in flight
C1_Witness == skipped /\ cycles # <<>> /\ isPollingRef

(***************************************************************************)
(* C2 (as stated): a task whose status is completed or failed never        *)
(* changes status again.                                                   *)
(***************************************************************************)
C2_TerminalIsFinal ==
  [][\A id \in AllIds :
       (HasTask(tasks, id) /\ StatusOf(tasks, id) \in Terminal /\ HasTask(tasks', id))
         => StatusOf(tasks', id) = StatusOf(tasks, id)]_vars

(***************************************************************************)
(* C3 (as stated): once a task is completed or failed in the collection,   *)
(* no status query is issued for it again, by a cycle (a cycle that took   *)
(* its snapshot earlier included) or by a manual refresh.                  *)
(***************************************************************************)
C3_NoQueryOnceTerminal ==
  [][\A id \in AllIds :
       (HasTask(tasks, id) /\ StatusOf(tasks, id) \in Terminal)
         => ~(AutoIssued(id) \/ ManualIssued(id))]_vars

(***************************************************************************)
(* C4 (as stated): a task that is more than 5 minutes old when the cycle   *)
(* examines it is not queried.                                             *)
(***************************************************************************)
C4_NoQueryPastFiveMinutes ==
  [][\A c \in Range(cycles') :
       (Started(c) \/ Advanced(c))
         => now - c.snap[c.i].createdAt <= 5 * 60 * 1000]_vars

(***************************************************************************)
(* C5: a cycle examines exactly the tasks that are processing and have a   *)
(* remote job id in its snapshot; it neither queries nor updates any       *)
(* other task.  A cycle that starts and ends within one step has taken its *)
(* snapshot from tasksRef as the step found it or as the effects of the    *)
(* step have set it, to the collection before or after the step's render.  *)
(***************************************************************************)
C5_ExaminesExactlyEligible ==
  /\ [](\A c \in Range(cycles) :
          /\ c.snap = SelectSeq(c.from, Eligible)
          /\ Range(c.reqs) \cup DOMAIN c.updates \subseteq IdsOf(c.snap))
  /\ [][\A u \in Range(queue') :
          (Enqueues(u) /\ u.kind = "batch" /\ cycles = <<>>)
            => \E from \in {tasksRef, tasks, tasks'} :
                 \A id \in DOMAIN u.updates :
                   HasTask(from, id) /\ Eligible(FindTask(from, id))]_vars

\* a cycle is in flight whose snapshot left out a failed task without
\* remote job id
C5_Witness ==
  \E c \in Range(cycles) : \E k \in DOMAIN c.from :
    /\ c.from[k].status = "failed"
    /\ c.from[k].taskId = Undef
    /\ c.from[k].id \notin IdsOf(c.snap)
    /\ c.reqs # <<>>

(***************************************************************************)
(* C6 (as stated): in every quiescent state a poll timer is pending if and *)
(* only if some task of the collection is processing.                      *)
(***************************************************************************)
C6_TimerIffProcessing ==
  Quiescent => (timers > 0 <=> HasProcessing(tasks))

(***************************************************************************)
(* C7 (as stated): after deleteTask(id) the task is in no list that a      *)
(* render or a cycle starts from (the collection, the updates and loads    *)
(* still to arrive, tasksRef) and nothing brings it back, also not the     *)
(* result of a query or the batch of a cycle that was in flight; and no    *)
(* cycle that starts with the click or after it has the task in its        *)
(* snapshot.                                                               *)
(***************************************************************************)
ArrivingIds ==
  {t.id : t \in submits}
    \cup UNION {IF u.kind = "prepend" THEN {u.task.id}
                ELSE IF u.kind = "load" THEN IdsOf(u.tasks) ELSE {} :
                u \in Range(queue)}
    \cup (IF loadData THEN IdsOf(stored.tasks) ELSE {})

Absent(id) == id \notin IdsOf(tasks) /\ id \notin ArrivingIds

\* the id has been given to a task
Allocated(id) == \E n \in 1..(nextId - 1) : id = TaskId(n)

\* the task is in no list that a cycle or a render starts from
Gone(id) == Allocated(id) /\ Absent(id) /\ id \notin IdsOf(tasksRef)

C7_DeletedStaysDeleted ==
  /\ [][\A id \in AllIds : DeleteTask(id) => Gone(id)']_vars
  /\ [][\A id \in AllIds : Gone(id) => Gone(id)']_vars
  /\ [][\A id \in AllIds :
          (DeleteTask(id) \/ Gone(id))
            => \A c \in Range(cycles') :
                 Started(c) => id \notin IdsOf(c.snap)]_vars

(***************************************************************************)
(* C8: a cycle calls setTasks once, after its last status query has        *)
(* returned, with all its changes; that update writes the persisted list   *)
(* once, however many tasks it changes: when it is rendered or, if React   *)
(* runs its updater at the call, then, and not again at the render.  An    *)
(* updater that React runs at the call and that finds none of its tasks in *)
(* the collection writes nothing and is not rendered.                      *)
(***************************************************************************)
C8_OneBatchOneWrite ==
  /\ [][(\E c \in Range(cycles') : Advanced(c))
          => UNCHANGED <<queue, tasks, persisted, storeWrites>>]_vars
  /\ [][\A c \in Range(cycles) :
          (EndsCycle /\ mounted)
            => \/ UNCHANGED <<queue, persisted, storeWrites>> /\ DOMAIN c.updates = {}
               \/ /\ UNCHANGED <<queue, persisted, storeWrites>>
                  /\ DOMAIN c.updates \cap IdsOf(tasks) = {}
               \/ /\ Len(queue') = Len(queue) + 1
                  /\ Last(queue').kind = "batch"
                  /\ \A id \in DOMAIN c.updates :
                       /\ id \in DOMAIN Last(queue').updates
                       /\ Last(queue').updates[id] = c.updates[id]
                  /\ IF eagerHead' /\ queue = <<>>
                       THEN /\ storeWrites' = 1
                            /\ persisted' =
                                 [present |-> TRUE,
                                  tasks |-> ApplyUpdate(tasks, Last(queue')).tasks]
                       ELSE UNCHANGED <<persisted, storeWrites>>]_vars
  /\ [][(Render /\ ~EffectsPending /\ Len(queue) = 1 /\ queue[1].kind = "batch")
          => LET hit == DOMAIN queue[1].updates \cap IdsOf(tasks)
             IN /\ storeWrites' = IF hit = {} THEN 0 ELSE 1
                /\ hit # {} => persisted' = [present |-> TRUE, tasks |-> tasks']]_vars

\* the update of one cycle is queued and changes the status of two tasks
C8_Witness ==
  /\ Len(queue) = 1
  /\ queue[1].kind = "batch"
  /\ Cardinality(DOMAIN queue[1].updates) = 2
  /\ \A id \in DOMAIN queue[1].updates :
       HasTask(tasks, id) /\ StatusOf(tasks, id) # queue[1].updates[id].status

(***************************************************************************)
(* C9: within a cycle the status queries go out in snapshot order, one at  *)
(* a time: the only query of the automatic loop that is on the wire is the *)
(* one for the cycle's current task.                                       *)
(***************************************************************************)
PosIn(snap, id) == CHOOSE k \in DOMAIN snap : snap[k].id = id

C9_SequentialInSnapshotOrder ==
  /\ Len(cycles) <= 1
  /\ \A c \in Range(cycles) :
       /\ c.i \in DOMAIN c.snap
       /\ c.reqs # <<>>
       /\ Last(c.reqs) = c.snap[c.i].id
       /\ \A j, k \in DOMAIN c.reqs :
            j < k => PosIn(c.snap, c.reqs[j]) < PosIn(c.snap, c.reqs[k])

\* the second query of a cycle is on the wire, the first has returned
C9_Witness ==
  \E c \in Range(cycles) : Len(c.reqs) = 2 /\ c.i = 2

(***************************************************************************)
(* C10 (as stated): after the cleanup of the hook's effect at unmount no   *)
(* poll timer is pending.                                                  *)
(***************************************************************************)
C10_NoTimerAfterTeardown ==
  ~mounted => timers = 0

(***************************************************************************)
(* Vocabulary of the properties of generateImage, under SpecSubmit.        *)
(***************************************************************************)
\* the answer carries a job identifier: data.task_id or data.data[0].task_id
HasJobId(b) ==
  b.task_id # Undef \/ (b.data # <<>> /\ b.data[1].task_id # Undef)

\* the answer carries an immediate result in data.data[0]
HasInlineResult(b) ==
  b.data # <<>> /\ (b.data[1].url # Undef \/ b.data[1].b64_json # Undef)

JobIds(b) ==
  {b.task_id} \cup (IF b.data # <<>> THEN {b.data[1].task_id} ELSE {})

\* the call under examination has returned a task
Returned == output.kind = "task"

(***************************************************************************)
(* C11 (as stated): for every 2xx answer to the submission, a job          *)
(* identifier without inline result gives a processing task with that      *)
(* identifier as remote job id; an immediate result (url or base64 data in *)
(* data[0]) gives a completed task with the matching result field set and  *)
(* the result's own identifier, else the task's local id, as remote job    *)
(* id.                                                                     *)
(***************************************************************************)
C11_SubmissionClassification ==
  (Returned /\ input.resp.ok) =>
    LET b == input.resp
        t == output.task
    IN /\ (HasJobId(b) /\ ~HasInlineResult(b))
            => /\ t.status = "processing"
               /\ t.taskId # Undef
               /\ t.taskId \in JobIds(b)
       /\ HasInlineResult(b)
            => /\ t.status = "completed"
               /\ \/ b.data[1].url # Undef /\ t.resultImageUrl = b.data[1].url
                  \/ /\ b.data[1].b64_json # Undef
                     /\ t.resultImageBase64 = Base64Url(b.data[1].b64_json)
               /\ t.taskId = IF b.data[1].task_id # Undef
                               THEN b.data[1].task_id ELSE t.id

(***************************************************************************)
(* C12: with a complete config generateImage returns a task whatever the   *)
(* POST gives (it does not throw); once rendered, that one task, with a    *)
(* fresh id, is at the head of the collection, the tasks that were there   *)
(* follow unchanged, and the whole list has been persisted; after a        *)
(* transport error or a non-2xx answer the task is failed with a non-empty *)
(* error message.                                                          *)
(***************************************************************************)
C12_SubmissionNeverThrows ==
  (ConfigComplete(input.config) /\ output.kind # "none") =>
    /\ Returned
    /\ output.task.id \notin IdsOf(<<FinishedTask>>)
    /\ \/ /\ queue = <<[kind |-> "prepend", task |-> output.task]>>
          /\ tasks = <<FinishedTask>>
       \/ /\ queue = <<>>
          /\ tasks = <<output.task, FinishedTask>>
          /\ persisted = [present |-> TRUE, tasks |-> tasks]
          /\ storeWrites = 1
    /\ ~input.resp.ok
         => output.task.status = "failed" /\ output.task.error # Undef

\* the POST has failed and the failed task has been rendered at the head
C12_Witness ==
  /\ Returned
  /\ ~input.resp.ok
  /\ queue = <<>>
  /\ Len(tasks) = 2
  /\ tasks[1].status = "failed"

(***************************************************************************)
(* C13: with the API URL, the API key or the model name empty,             *)
(* generateImage throws: no task is constructed, no request goes out, the  *)
(* collection and the persisted list stay as they were.                    *)
(***************************************************************************)
C13_IncompleteConfigRejected ==
  ~(input.config.apiUrl /\ input.config.apiKey /\ input.config.modelName) =>
    /\ output.kind \in {"none", "thrown"}
    /\ submits = {}
    /\ nextId = 2
    /\ queue = <<>>
    /\ tasks = <<FinishedTask>>
    /\ persisted = [present |-> TRUE, tasks |-> <<FinishedTask>>]
    /\ storeWrites = 0

\* the call has thrown for a config that lacks only the model name
C13_Witness ==
  /\ output.kind = "thrown"
  /\ input.config.apiUrl /\ input.config.apiKey /\ ~input.config.modelName

(***************************************************************************)
(* C14 (as stated): a 2xx answer to the submission with neither a job      *)
(* identifier nor an immediate result, whatever else it holds, gives a     *)
(* task that is failed with the malformed-response error.                  *)
(***************************************************************************)
C14_NeitherShapeIsMalformed ==
  (Returned /\ input.resp.ok /\ ~HasJobId(input.resp) /\ ~HasInlineResult(input.resp))
    => /\ output.task.status = "failed"
       /\ output.task.error = MALFORMED_ERROR

(***************************************************************************)
(* C15 (as stated): every task of the collection whose status is not       *)
(* pending has a non-empty remote job id.                                  *)
(***************************************************************************)
C15_JobIdOnceNotPending ==
  \A k \in DOMAIN tasks :
    tasks[k].status # "pending" => tasks[k].taskId # Undef

\* the errors that the catch of lines 166-169 leaves on the task of a
\* submission that failed
SubmissionErrors ==
  { SubmittedTask(NewTask("t1", Undef, "pending", 0), resp).error :
      resp \in { r \in SubmitResponses :
                   SubmittedTask(NewTask("t1", Undef, "pending", 0), r).status = "failed" } }

(***************************************************************************)
(* C15 (amended): a task of the collection has an empty remote job id if   *)
(* and only if it failed at submission.  A submission that fails (rejected *)
(* call, non-2xx answer, an answer with neither task_id nor data, a null   *)
(* body) gives a failed task without remote job id; every other task of    *)
(* the collection (processing, completed, failed by a poll result or by    *)
(* the timeout) has a non-empty one, and no step changes the remote job id *)
(* of a task that stays in the collection.                                 *)
(***************************************************************************)
C15_JobIdUnlessFailedAtSubmission ==
  /\ [](\A k \in DOMAIN tasks :
          tasks[k].taskId = Undef
            <=> (tasks[k].status = "failed" /\ tasks[k].error \in SubmissionErrors))
  /\ [][\A task \in submits, resp \in SubmitResponses :
          (SubmitReturn(task, resp) /\ SubmittedTask(task, resp).status = "failed")
            => /\ SubmittedTask(task, resp).taskId = Undef
               /\ \A u \in Range(queue') :
                    (u.kind = "prepend" /\ u.task.id = task.id) => u.task.taskId = Undef
               /\ \A k \in DOMAIN tasks' :
                    tasks'[k].id = task.id => tasks'[k].taskId = Undef]_vars
  /\ [][\A j \in DOMAIN tasks, k \in DOMAIN tasks' :
          tasks'[k].id = tasks[j].id => tasks'[k].taskId = tasks[j].taskId]_vars

\* the collection holds a task that failed at submission on an answer with
\* neither task_id nor data, without remote job id, next to a task that a
\* poll result has failed, which has kept its remote job id
C15_Witness ==
  /\ Len(tasks) = 2
  /\ tasks[1].status = "failed"
  /\ tasks[1].error = MALFORMED_ERROR
  /\ tasks[1].taskId = Undef
  /\ tasks[2].status = "failed"
  /\ tasks[2].error \notin SubmissionErrors
  /\ tasks[2].taskId # Undef

(***************************************************************************)
(* C16: a status query that fails (transport error or non-2xx answer)      *)
(* changes nothing: after a manual refresh no update is queued and the     *)
(* collection and the persisted list are as before; in a cycle no update   *)
(* is recorded for the queried task, which therefore stays processing in   *)
(* the collection and in whatever the cycle writes to the store when it    *)
(* ends with that query, and a cycle that starts takes every processing    *)
(* task of the list it starts from (tasksRef, as the effects that run      *)
(* before it leave it) into its snapshot again.                            *)
(***************************************************************************)
C16_FailedQueryChangesNothing ==
  /\ [][\A r \in refreshes, resp \in PollResponses :
          (~resp.ok /\ refreshes' # refreshes /\ RefreshReturn(r, resp))
            => UNCHANGED <<queue, tasks, tasksRef, persisted, storeWrites>>]_vars
  /\ [][\A n \in DOMAIN cycles, resp \in PollResponses :
          (~resp.ok /\ cycles' # cycles /\ PollReturn(n, resp))
            => LET id == cycles[n].snap[cycles[n].i].id
               IN /\ UNCHANGED <<tasks, tasksRef>>
                  /\ \A t \in Range(persisted'.tasks) :
                       t.id = id => t \in Range(persisted.tasks) \cup Range(tasks)
                  /\ \A c \in Range(cycles') : id \notin DOMAIN c.updates
                  /\ \A u \in Range(queue') :
                       (Enqueues(u) /\ u.kind = "batch") => id \notin DOMAIN u.updates]_vars
  /\ [][\A c \in Range(cycles') :
          Started(c)
            => /\ c.from \in {tasksRef, tasks, tasks'}
               /\ \A k \in DOMAIN c.from :
                    c.from[k].status = "processing"
                      => c.from[k].id \in IdsOf(c.snap)]_vars

\* a manual refresh has come back with an error: the stored tasks are all
\* as they were loaded and nothing has been written
C16_Witness ==
  /\ mounted
  /\ clicks = 1
  /\ refreshes = {}
  /\ queue = <<>>
  /\ storeWrites = 0
  /\ tasks # <<>>
  /\ tasks = stored.tasks
  /\ persisted.tasks = stored.tasks

(***************************************************************************)
(* C17 (as stated): a 2xx status response whose status, task_status and    *)
(* output.task_status match no vocabulary entry leaves the status of the   *)
(* task as it is, whatever it is, in a manual refresh and in a cycle: the  *)
(* update that the response gives rise to, applied to the collection, does *)
(* not change the task's status.                                           *)
(***************************************************************************)
Vocabulary ==
  {"completed", "success", "succeeded", "succeed", "failed", "error",
   "pending", "processing", "running"}

Unrecognized(data) ==
  /\ ToLowerCase(data.status) \notin Vocabulary
  /\ ToLowerCase(data.task_status) \notin Vocabulary
  /\ ToLowerCase(data.out_task_status) \notin Vocabulary

C17_UnrecognizedIsNoChange ==
  /\ [][\A r \in refreshes, resp \in PollResponses :
          (/\ RefreshReturn(r, resp)
           /\ resp.ok /\ Unrecognized(resp.data)
           /\ mounted /\ HasTask(tasks, r.id))
            => StatusOf(ApplyUpdate(tasks, Last(queue')).tasks, r.id)
                 = StatusOf(tasks, r.id)]_vars
  /\ [][\A n \in DOMAIN cycles, resp \in PollResponses :
          (/\ PollReturn(n, resp)
           /\ resp.ok /\ Unrecognized(resp.data))
            => LET id == cycles[n].snap[cycles[n].i].id
                   upd == Record(cycles[n].updates, cycles[n].snap[cycles[n].i],
                                 PollResult(resp), tasksRef)
               IN (id \in DOMAIN upd /\ HasTask(tasksRef, id))
                    => upd[id].status = StatusOf(tasksRef, id)]_vars

(***************************************************************************)
(* The reference classification of a status response, as the contract      *)
(* words it: the flat status, then the flat task_status, then              *)
(* output.task_status, each against the whole vocabulary and without       *)
(* regard to letter case; a response in which none is recognized counts as *)
(* still processing.                                                       *)
(***************************************************************************)
Classify(s) ==
  LET l == ToLowerCase(s)
  IN IF l \in {"completed", "success", "succeeded", "succeed"} THEN "completed"
     ELSE IF l \in {"failed", "error"} THEN "failed"
     ELSE IF l \in {"pending", "processing", "running"} THEN "processing"
     ELSE "none"

ReferenceStatus(data) ==
  IF Classify(data.status) # "none" THEN Classify(data.status)
  ELSE IF Classify(data.task_status) # "none" THEN Classify(data.task_status)
  ELSE IF Classify(data.out_task_status) # "none" THEN Classify(data.out_task_status)
  ELSE "processing"

\* pollTaskStatus has answered a 2xx response with a tuple
Normalized == output.kind = "result" /\ ~output.result.null

(***************************************************************************)
(* C18 (as stated): for every combination of status, task_status and       *)
(* output.task_status, the normalized status of a 2xx status response is   *)
(* the reference classification.                                           *)
(***************************************************************************)
C18_StatusIsReferenceClassification ==
  Normalized => output.result.updates.status = ReferenceStatus(input.resp.data)

(***************************************************************************)
(* C19 (as stated): a response without status, whose task_status is FAILED *)
(* in any letter case and whose output.message is a non-empty m, makes the *)
(* task failed with error message m.                                       *)
(***************************************************************************)
C19_NestedMessageOfFlatFailure ==
  (/\ Normalized
   /\ input.resp.data.status = Undef
   /\ ToLowerCase(input.resp.data.task_status) = "failed"
   /\ input.resp.data.out_message # Undef)
    => /\ output.result.updates.status = "failed"
       /\ output.result.updates.error = input.resp.data.out_message

(***************************************************************************)
(* The values the six result shapes yield, in the order of the contract.   *)
(***************************************************************************)
NoImage == [url |-> Undef, b64 |-> Undef]

Yields(v) == v.url # Undef \/ v.b64 # Undef

ShapeValues(data) ==
  << IF data.output_images # <<>>
       THEN [url |-> data.output_images[1], b64 |-> Undef] ELSE NoImage,
     IF data.data # <<>>
       THEN [url |-> data.data[1].url,
             b64 |-> IF data.data[1].b64_json # Undef
                       THEN Base64Url(data.data[1].b64_json) ELSE Undef]
       ELSE NoImage,
     [url |-> data.out_image_url, b64 |-> Undef],
     [url |-> FirstResultUrl(data), b64 |-> Undef],
     [url |-> data.result_image_url, b64 |-> Undef],
     [url |-> data.url, b64 |-> Undef] >>

FirstYield(data) ==
  LET vs == ShapeValues(data)
      ks == {k \in DOMAIN vs : Yields(vs[k])}
  IN IF ks = {} THEN NoImage
     ELSE vs[CHOOSE k \in ks : \A j \in ks : k <= j]

(***************************************************************************)
(* C20 (as stated): on every terminal-success response, however the        *)
(* success was recognized, the result is the value of the first shape that *)
(* yields one; a shape that is present and yields nothing does not stop    *)
(* the search.                                                             *)
(***************************************************************************)
C20_FirstYieldingShapeWins ==
  (Normalized /\ output.result.updates.status = "completed")
    => /\ output.result.updates.resultImageUrl = FirstYield(input.resp.data).url
       /\ output.result.updates.resultImageBase64 = FirstYield(input.resp.data).b64

(***************************************************************************)
(* The collection to which the k-th queued update is applied at the next   *)
(* render, and the collection it leaves.                                   *)
(***************************************************************************)
BeforeUpdate(k) == ApplyAll(tasks, SubSeq(queue, 1, k - 1), persisted, 0).tasks

AfterUpdate(k) == ApplyUpdate(BeforeUpdate(k), queue[k]).tasks

\* the queued update k carries results of status queries
IsQueryUpdate(k) == queue[k].kind \in {"batch", "refresh"}

(***************************************************************************)
(* C21 (as stated): applying the result of a status query to a task, in a  *)
(* cycle's batch or in a manual refresh, never turns resultImageUrl or     *)
(* resultImageBase64 from a set value into an empty one.                   *)
(***************************************************************************)
C21_ResultNeverCleared ==
  \A k \in DOMAIN queue :
    IsQueryUpdate(k) =>
      \A id \in IdsOf(BeforeUpdate(k)) :
        HasTask(AfterUpdate(k), id) =>
          LET b == FindTask(BeforeUpdate(k), id)
              a == FindTask(AfterUpdate(k), id)
          IN /\ b.resultImageUrl # Undef => a.resultImageUrl # Undef
             /\ b.resultImageBase64 # Undef => a.resultImageBase64 # Undef

(***************************************************************************)
(* C22: a task whose error is set is failed, in the collection, in         *)
(* tasksRef, in the persisted list and after every queued update: a task   *)
(* that becomes completed or processing again has its error cleared.       *)
(***************************************************************************)
ErrorOnlyWhenFailed(ts) ==
  \A k \in DOMAIN ts : ts[k].error # Undef => ts[k].status = "failed"

C22_ErrorOnlyWhenFailed ==
  /\ ErrorOnlyWhenFailed(tasks)
  /\ ErrorOnlyWhenFailed(tasksRef)
  /\ ErrorOnlyWhenFailed(persisted.tasks)
  /\ \A k \in DOMAIN queue : ErrorOnlyWhenFailed(AfterUpdate(k))

\* a failed task with an error is about to become completed, without error
C22_Witness ==
  \E k \in DOMAIN queue :
    /\ IsQueryUpdate(k)
    /\ \E id \in IdsOf(BeforeUpdate(k)) :
         /\ FindTask(BeforeUpdate(k), id).status = "failed"
         /\ FindTask(BeforeUpdate(k), id).error # Undef
         /\ HasTask(AfterUpdate(k), id)
         /\ FindTask(AfterUpdate(k), id).status = "completed"
         /\ FindTask(AfterUpdate(k), id).error = Undef

(***************************************************************************)
(* C23: clearFinishedTasks removes all and only the completed and failed   *)
(* tasks: none of them remains, the pending and processing tasks remain    *)
(* with their fields and in their order, and the persisted list is the     *)
(* remaining collection.                                                   *)
(***************************************************************************)
Finished(t) == t.status \in {"completed", "failed"}

Unfinished(t) == t.status \in {"pending", "processing"}

Cleared == output.kind = "void"

C23_ClearRemovesExactlyFinished ==
  Cleared =>
    /\ \A k \in DOMAIN tasks : ~Finished(tasks[k])
    /\ tasks = SelectSeq(input.tasks, Unfinished)
    /\ tasksRef = tasks
    /\ persisted = [present |-> TRUE, tasks |-> tasks]
    /\ storeWrites = 1

\* a finished task has been cleared from between a pending and a processing
\* task, which remain
C23_Witness ==
  /\ Cleared
  /\ Len(input.tasks) = 3
  /\ input.tasks[1].status = "pending"
  /\ Finished(input.tasks[2])
  /\ input.tasks[3].status = "processing"
  /\ tasks = <<input.tasks[1], input.tasks[3]>>

(***************************************************************************)
(* C24 (as stated): once the startup load, every submission, every cycle,  *)
(* every manual refresh and every queued update has completed, the task    *)
(* list last written to the store (the stored list, while nothing has been *)
(* written) is the collection in memory.                                   *)
(***************************************************************************)
NothingInFlight ==
  /\ mounted
  /\ ~loadData
  /\ ~loading
  /\ queue = <<>>
  /\ ~EffectsPending
  /\ cycles = <<>>
  /\ submits = {}
  /\ refreshes = {}

C24_PersistedIsCollection ==
  NothingInFlight => persisted.tasks = tasks

(***************************************************************************)
(* C25 (as stated): for a non-2xx answer to the submission with a body of  *)
(* any length, the error of the failed task is the response status and at  *)
(* most 200 characters of the body.                                        *)
(***************************************************************************)
C25_ErrorBodyTruncated ==
  (Returned /\ ~input.resp.rejected /\ ~input.resp.ok) =>
    /\ output.task.status = "failed"
    /\ Len(output.task.error)
         <= Len(RequestError([input.resp EXCEPT !.text = Undef])) + 200

(***************************************************************************)
(* C26 (as stated): under fairness every task that is processing and is    *)
(* not deleted eventually becomes completed or failed, at the latest       *)
(* through the timeout.  The clock of the model stops at MaxNow, so the     *)
(* statement is made for the tasks whose timeout the clock can pass; a     *)
(* task is also released when the component unmounts.  The timer chains    *)
(* of the hook can multiply without limit (C29), so the statement is made  *)
(* for the runs that stay below MaxTimers pending timers.                  *)
(***************************************************************************)
CanTimeOut(t) == t.createdAt + TIMEOUT_MS < MaxNow

ProcessingIn(id) ==
  /\ mounted
  /\ HasTask(tasks, id)
  /\ FindTask(tasks, id).status = "processing"
  /\ CanTimeOut(FindTask(tasks, id))

Settled(id) ==
  \/ ~mounted
  \/ ~HasTask(tasks, id)
  \/ FindTask(tasks, id).status \in Terminal

\* the tasks of a session of the background loop
LoopIds == {TaskId(n) : n \in 1..MaxTasks}

C26_ProcessingEventuallySettles ==
  /\ \A id \in LoopIds : ProcessingIn(id) ~> (Settled(id) \/ timers = MaxTimers)
  /\ [](cycles = <<>> => ~isPollingRef)

\* the task loaded as processing has been failed by the timeout
C26_Witness ==
  /\ mounted
  /\ \E k \in DOMAIN tasks :
       /\ tasks[k].id \in IdsOf(stored.tasks)
       /\ tasks[k].status = "failed"
       /\ tasks[k].error = TIMEOUT_ERROR

(***************************************************************************)
(* C27 (as stated): when the status query of a cycle returns and the turn  *)
(* of the next task of the snapshot begins, a task that is by then more    *)
(* than 5 minutes old gets the timeout update and no request, also when it *)
(* was at most 5 minutes old at the start of the cycle.                    *)
(***************************************************************************)
C27_TimeoutAtTurn ==
  [][\A n \in DOMAIN cycles, resp \in PollResponses :
       (PollReturn(n, resp) /\ cycles[n].i < Len(cycles[n].snap))
         => LET c == cycles[n]
                t == c.snap[c.i + 1]
            IN now - t.createdAt > TIMEOUT_MS
                 => /\ \A d \in Range(cycles') : Advanced(d) => d.snap[d.i].id # t.id
                    /\ \/ \E d \in Range(cycles') :
                            /\ t.id \in DOMAIN d.updates
                            /\ d.updates[t.id] = TimeoutUpdate
                       \/ \E u \in Range(queue') :
                            /\ Enqueues(u) /\ u.kind = "batch"
                            /\ t.id \in DOMAIN u.updates
                            /\ u.updates[t.id] = TimeoutUpdate]_vars

(***************************************************************************)
(* C28: an update is applied to the collection as it is when React runs    *)
(* it, not as it was when the operation began.  A cycle's batch keeps      *)
(* every task of that collection in place, and every task outside its      *)
(* update set (a task submitted or refreshed while the cycle ran) with the *)
(* values it has at that moment; a submission puts its task in front of    *)
(* that collection, whatever happened to it during the HTTP call; and a    *)
(* render with no effects left to run leaves the collection that the last  *)
(* queued update gives.                                                    *)
(***************************************************************************)
C28_NoLostUpdate ==
  /\ [](\A k \in DOMAIN queue :
          LET b == BeforeUpdate(k)
              a == AfterUpdate(k)
          IN /\ queue[k].kind = "batch" =>
                  /\ Len(a) = Len(b)
                  /\ \A j \in DOMAIN b :
                       /\ a[j].id = b[j].id
                       /\ b[j].id \notin DOMAIN queue[k].updates => a[j] = b[j]
             /\ queue[k].kind = "prepend" => a = <<queue[k].task>> \o b)
  /\ [][(Render /\ ~EffectsPending) => tasks' = AfterUpdate(Len(queue))]_vars

\* the batch of a cycle is queued; the collection holds a task that the
\* cycle did not have in its snapshot and that finished while it ran or
\* before, next to a task the batch changes
C28_Witness ==
  /\ Len(queue) = 1
  /\ queue[1].kind = "batch"
  /\ \E j, k \in DOMAIN tasks :
       /\ tasks[j].id \notin DOMAIN queue[1].updates
       /\ tasks[j].status = "completed"
       /\ tasks[k].id \in DOMAIN queue[1].updates
       /\ tasks[k].status # queue[1].updates[tasks[k].id].status

(***************************************************************************)
(* C29 (as stated): at most one poll timer is pending at any time and      *)
(* pollingTimerRef refers to it, so that clearing the stored handle clears *)
(* every pending poll timer.                                               *)
(***************************************************************************)
C29_SingleTimerChain ==
  /\ timers <= 1
  /\ timers = 1 => pollingTimerRef = PendingTimer

(***************************************************************************)
(* C30 (as stated): every completed task of the collection has a           *)
(* non-empty resultImageUrl or a non-empty resultImageBase64.              *)
(***************************************************************************)
C30_CompletedHasImage ==
  \A k \in DOMAIN tasks :
    tasks[k].status = "completed"
      => tasks[k].resultImageUrl # Undef \/ tasks[k].resultImageBase64 # Undef

====
